---- MODULE Spec2Model ----
(***************************************************************************)
(* pixelterm: conversion of a decoded image into character art.            *)
(*                                                                         *)
(* Three variants of the conversion live in the repository:                *)
(*   "parallel"    toASCII/colorASCII(img, width, scale) with one          *)
(*                 goroutine per output row, block averaging and a         *)
(*                 buffered result channel          (src/unnamed/part_001) *)
(*   "sequential"  toASCII/colorASCII(img, width, scale), a plain loop     *)
(*                 that samples one pixel per cell  (src/unnamed/part_002) *)
(*   "legacy"      toASCII/colorASCII(img, width) with the fixed scale     *)
(*                 0.5     (src/main.go, src/unnamed/part_000)             *)
(*                                                                         *)
(* A string is a sequence of tokens: one token per character, the escape   *)
(* introducer "\x1b[38;2;" and the reset "\x1b[0m" being one token each.   *)
(* A colour is a triple <<r, g, b>> of 16-bit channels, as RGBA() returns. *)
(***************************************************************************)
EXTENDS Integers, Sequences, FiniteSets, TLC

VARIABLES
    variant,     \* which of the three variants runs
    color,       \* TRUE: colorASCII, FALSE: toASCII
    imgWidth,    \* bounds.Dx()
    imgHeight,   \* bounds.Dy()
    img,         \* the pixel grid: <<px, py>> -> <<r, g, b>>
    width,       \* the requested output width
    scale,       \* the scale factor, a dyadic rational <<num, den>>
    pc,          \* position of the calling goroutine
    height,      \* the computed output height (0 before it is computed)
    result,      \* the result slice
    y,           \* the dispatch loop's counter
    i,           \* the collection loop's counter
    task,        \* per row: "unspawned", "running" or "finished"
    resultChan,  \* the buffered channel's content, oldest first
    closed,      \* whether resultChan has been closed
    reads,       \* every <<px, py>> handed to img.At so far
    arrived      \* the row indices of the results received, in order of receipt

vars == <<variant, color, imgWidth, imgHeight, img, width, scale, pc, height,
          result, y, i, task, resultChan, closed, reads, arrived>>

(***************************************************************************)
(* Bounds of the model.                                                    *)
(***************************************************************************)
MaxSide == 6      \* source images are 1..MaxSide wide and 0..MaxSide high
MaxWidth == 3     \* output widths are 1..MaxWidth
MaxRows == 3      \* only geometries with at most MaxRows output rows
NumColours == 3   \* distinct pixel colours an image is drawn from

\* Scale factors.  The code computes the height in float64; for a scale that
\* is a power of two the product H*width/W*scale is truncated exactly as the
\* rational (H*width*num) / (W*den) is floored: a quotient that is not an
\* integer is at least 1/(W*den) away from one, far more than a rounding error.
Scales == {<<1, 2>>, <<1, 1>>, <<2, 1>>}

Variants == {"parallel", "sequential", "legacy"}

\* The k-th colour images are drawn from: black, white, then mixed colours.
Colour(k) ==
    IF k = 0 THEN <<0, 0, 0>>
    ELSE IF k = 1 THEN <<65535, 65535, 65535>>
    ELSE <<(k * 21845 + 111) % 65536, (k * 7919) % 65536, (k * 257) % 65536>>

(***************************************************************************)
(* Constants of the program.                                               *)
(***************************************************************************)
palette == <<"@", "%", "#", "*", "+", "=", "-", ":", ".", " ">>

LegacyScale == <<1, 2>>

EscFg == "\\x1b[38;2;"
EscReset == "\\x1b[0m"

Digits == <<"0", "1", "2", "3", "4", "5", "6", "7", "8", "9">>

(***************************************************************************)
(* The pixel source.  img.At of the standard image types returns the zero  *)
(* colour for a point outside the image's bounds.                          *)
(***************************************************************************)
InBounds(px, py) == px \in 0..(imgWidth - 1) /\ py \in 0..(imgHeight - 1)

At(px, py) == IF InBounds(px, py) THEN img[<<px, py>>] ELSE <<0, 0, 0>>

(***************************************************************************)
(* Output height: int(float64(imgHeight) * float64(width) /                *)
(* float64(imgWidth) * scale), 0 replaced by 1.                            *)
(***************************************************************************)
RawHeight(ih, w, iw, s) == (ih * w * s[1]) \div (iw * s[2])

HeightNoClamp(ih, w, iw, s) == RawHeight(ih, w, iw, s)

HeightOf(ih, w, iw, s) ==
    IF RawHeight(ih, w, iw, s) = 0 THEN 1 ELSE RawHeight(ih, w, iw, s)

(***************************************************************************)
(* Luminance and glyph selection.  The sums stay far below 2^31, so the    *)
(* uint32 / uint64 arithmetic of the code never wraps.                     *)
(***************************************************************************)
Gray(c) == ((299 * c[1] + 587 * c[2] + 114 * c[3]) \div 1000) \div 256

CharIndexInverted(gray) == ((255 - gray) * (Len(palette) - 1)) \div 255

CharIndex(gray) == (gray * (Len(palette) - 1)) \div 255

Glyph(c) == palette[CharIndex(Gray(c)) + 1]

\* uint8(v >> 8)
Reduce8(v) == (v \div 256) % 256

\* fmt's %d of a value in 0..255
RECURSIVE Itoa(_)
Itoa(n) ==
    IF n < 10 THEN <<Digits[n + 1]>>
    ELSE Itoa(n \div 10) \o <<Digits[(n % 10) + 1]>>

PlainCell(c) == <<Glyph(c)>>

\* fmt.Sprintf("\x1b[38;2;%d;%d;%dm%c\x1b[0m", r8, g8, b8, char)
ColorCell(c) ==
    <<EscFg>> \o Itoa(Reduce8(c[1])) \o <<";">> \o Itoa(Reduce8(c[2])) \o <<";">>
        \o Itoa(Reduce8(c[3])) \o <<"m", Glyph(c), EscReset>>

Cell(c) == IF color THEN ColorCell(c) ELSE PlainCell(c)

(***************************************************************************)
(* Block sampling of the parallel variant.                                 *)
(***************************************************************************)
WindowStart(k, src, out) == (k * src) \div out

WindowEnd(k, src, out) ==
    IF ((k + 1) * src) \div out > src THEN src ELSE ((k + 1) * src) \div out

Stride(lo, hi) == IF (hi - lo) \div 3 < 1 THEN 1 ELSE (hi - lo) \div 3

\* the values of  for p := lo; p < hi; p += stride
SamplePositionsInclusive(lo, hi) ==
    {p \in lo..hi : (p - lo) % Stride(lo, hi) = 0}

SamplePositions(lo, hi) ==
    {p \in lo..(hi - 1) : (p - lo) % Stride(lo, hi) = 0}

BlockPoints(x, rowIndex) ==
    SamplePositions(WindowStart(x, imgWidth, width), WindowEnd(x, imgWidth, width))
        \X SamplePositions(WindowStart(rowIndex, imgHeight, height),
                           WindowEnd(rowIndex, imgHeight, height))

RECURSIVE SumChannel(_, _)
SumChannel(P, ch) ==
    IF P = {} THEN 0
    ELSE LET p == CHOOSE q \in P : TRUE
         IN  At(p[1], p[2])[ch] + SumChannel(P \ {p}, ch)

BlockMean(x, rowIndex) ==
    LET P == BlockPoints(x, rowIndex)
        pixelCount == Cardinality(P)
    IN  IF pixelCount > 0
        THEN <<SumChannel(P, 1) \div pixelCount,
               SumChannel(P, 2) \div pixelCount,
               SumChannel(P, 3) \div pixelCount>>
        ELSE <<0, 0, 0>>

\* line after n iterations of the x loop of the goroutine for rowIndex
RECURSIVE ParLineUpTo(_, _)
ParLineUpTo(rowIndex, n) ==
    IF n = 0 THEN <<>>
    ELSE ParLineUpTo(rowIndex, n - 1) \o Cell(BlockMean(n - 1, rowIndex))

ParRowLineExtra(rowIndex) == ParLineUpTo(rowIndex, width + 1)

ParRowLine(rowIndex) == ParLineUpTo(rowIndex, width)

ParRowReads(rowIndex) ==
    UNION {BlockPoints(x, rowIndex) : x \in 0..(width - 1)}

(***************************************************************************)
(* Single-pixel sampling of the sequential and legacy variants; h is the   *)
(* output height computed at the top of the function.                      *)
(***************************************************************************)
SeqPoint(x, row, h) == <<(x * imgWidth) \div width, (row * imgHeight) \div h>>

SeqColour(x, row, h) == At(SeqPoint(x, row, h)[1], SeqPoint(x, row, h)[2])

RECURSIVE SeqLineUpTo(_, _, _)
SeqLineUpTo(row, n, h) ==
    IF n = 0 THEN <<>>
    ELSE SeqLineUpTo(row, n - 1, h) \o Cell(SeqColour(n - 1, row, h))

SeqRowLine(row, h) == SeqLineUpTo(row, width, h)

SeqResult(h) == [k \in 1..h |-> SeqRowLine(k - 1, h)]

SeqReads(h) == {SeqPoint(x, row, h) : x \in 0..(width - 1), row \in 0..(h - 1)}

(***************************************************************************)
(* Initial states: an image, a configuration and a variant.                *)
(***************************************************************************)
InitFrom(Widths, Heights, OutWidths, ScaleSet, As, Bs, Cs) ==
    \E iw \in Widths, ih \in Heights, w \in OutWidths, s \in ScaleSet,
       v \in Variants, col \in BOOLEAN, a \in As, b \in Bs, c \in Cs :
        /\ v = "legacy" => s = LegacyScale
        /\ HeightOf(ih, w, iw, s) <= MaxRows
        /\ variant = v
        /\ color = col
        /\ imgWidth = iw
        /\ imgHeight = ih
        /\ img = [p \in (0..(iw - 1)) \X (0..(ih - 1)) |->
                     Colour((a * p[1] + b * p[2] + c) % NumColours)]
        /\ width = w
        /\ scale = s
        /\ pc = "start"
        /\ height = 0
        /\ result = <<>>
        /\ y = 0
        /\ i = 0
        /\ task = <<>>
        /\ resultChan = <<>>
        /\ closed = FALSE
        /\ reads = {}
        /\ arrived = <<>>

Init ==
    InitFrom(1..MaxSide, 0..MaxSide, 1..MaxWidth, Scales,
             0..1, 0..1, 0..(NumColours - 1))

\* The inputs of the fair specification: images whose rows differ, so that a
\* misplaced row shows, in the geometries that give 1..MaxRows output rows.
FairInit == InitFrom(1..2, 0..MaxRows, 1..2, Scales, {0}, {1}, {0})

(***************************************************************************)
(* The sequential variants: the whole function, which has no concurrency.  *)
(***************************************************************************)
SeqConvert ==
    /\ pc = "start"
    /\ variant = "sequential"
    /\ LET h == HeightOf(imgHeight, width, imgWidth, scale)
       IN  /\ height' = h
           /\ result' = SeqResult(h)
           /\ reads' = SeqReads(h)
    /\ pc' = "done"
    /\ UNCHANGED <<variant, color, imgWidth, imgHeight, img, width, scale,
                   y, i, task, resultChan, closed, arrived>>

LegacyConvert ==
    /\ pc = "start"
    /\ variant = "legacy"
    /\ LET h == HeightOf(imgHeight, width, imgWidth, LegacyScale)
       IN  /\ height' = h
           /\ result' = SeqResult(h)
           /\ reads' = SeqReads(h)
    /\ pc' = "done"
    /\ UNCHANGED <<variant, color, imgWidth, imgHeight, img, width, scale,
                   y, i, task, resultChan, closed, arrived>>

(***************************************************************************)
(* The parallel variant.                                                   *)
(***************************************************************************)
\* height, result := make([]string, height), resultChan := make(chan, height)
ParBegin ==
    /\ pc = "start"
    /\ variant = "parallel"
    /\ LET h == HeightOf(imgHeight, width, imgWidth, scale)
       IN  /\ height' = h
           /\ result' = [k \in 1..h |-> <<>>]
           /\ task' = [r \in 0..(h - 1) |-> "unspawned"]
    /\ resultChan' = <<>>
    /\ y' = 0
    /\ pc' = "spawn"
    /\ UNCHANGED <<variant, color, imgWidth, imgHeight, img, width, scale,
                   i, closed, reads, arrived>>

\* for y := 0; y < height; y++ { go func(rowIndex int) {...}(y) }
Spawn ==
    /\ pc = "spawn"
    /\ IF y < height
       THEN /\ task' = [task EXCEPT ![y] = "running"]
            /\ y' = y + 1
            /\ pc' = pc
            /\ i' = i
       ELSE /\ pc' = "collect"
            /\ i' = 0
            /\ UNCHANGED <<task, y>>
    /\ UNCHANGED <<variant, color, imgWidth, imgHeight, img, width, scale,
                   height, result, resultChan, closed, reads, arrived>>

\* capacity of the result channel: make(chan rowResult, height)
ChanCapShort == height - 1

ChanCap == height

\* The goroutine of one row: it computes its line from the shared read-only
\* image and sends rowResult{index, line}; the send needs room in the buffer.
RowTask(rowIndex) ==
    /\ rowIndex \in DOMAIN task
    /\ task[rowIndex] = "running"
    /\ ~closed
    /\ Len(resultChan) < ChanCap
    /\ resultChan' = Append(resultChan,
                            [index |-> rowIndex, line |-> ParRowLine(rowIndex)])
    /\ reads' = reads \cup ParRowReads(rowIndex)
    /\ task' = [task EXCEPT ![rowIndex] = "finished"]
    /\ UNCHANGED <<variant, color, imgWidth, imgHeight, img, width, scale,
                   pc, height, result, y, i, closed, arrived>>

\* slot the collector stores a received result in
SlotByArrival(res) == i + 1

Slot(res) == res.index + 1

\* number of results the collector waits for
CollectBoundShort == height - 1

CollectBound == height

\* for i := 0; i < height; i++ { res := <-resultChan; result[res.index] = res.line }
Collect ==
    /\ pc = "collect"
    /\ IF i < CollectBound
       THEN /\ resultChan # <<>>
            /\ LET res == Head(resultChan)
               IN  /\ result' = [result EXCEPT ![Slot(res)] = res.line]
                   /\ arrived' = Append(arrived, res.index)
            /\ resultChan' = Tail(resultChan)
            /\ i' = i + 1
            /\ pc' = pc
       ELSE /\ pc' = "close"
            /\ UNCHANGED <<result, arrived, resultChan, i>>
    /\ UNCHANGED <<variant, color, imgWidth, imgHeight, img, width, scale,
                   height, y, task, closed, reads>>

\* close(resultChan); return result
CloseReturn ==
    /\ pc = "close"
    /\ closed' = TRUE
    /\ pc' = "done"
    /\ UNCHANGED <<variant, color, imgWidth, imgHeight, img, width, scale,
                   height, result, y, i, task, resultChan, reads, arrived>>

Main == ParBegin \/ Spawn \/ Collect \/ CloseReturn

Next ==
    \/ SeqConvert
    \/ LegacyConvert
    \/ ParBegin
    \/ Spawn
    \/ \E r \in 0..(MaxRows - 1) : RowTask(r)
    \/ Collect
    \/ CloseReturn

Spec == Init /\ [][Next]_vars

\* The Go scheduler runs every runnable goroutine eventually.
FairSpec ==
    /\ FairInit
    /\ [][Next]_vars
    /\ WF_vars(SeqConvert \/ LegacyConvert \/ Main)
    /\ \A r \in 0..(MaxRows - 1) : WF_vars(RowTask(r))

(***************************************************************************)
(* Properties.                                                             *)
(***************************************************************************)
ParDone == variant = "parallel" /\ pc = "done"

\* C1: in the parallel variant, whatever the order in which the row tasks
\* finish and their results arrive, a filled slot k holds the line computed
\* for row k, and the returned slice holds at every index the line of that
\* row: the output is a function of the input alone.
C1_RowsByIndex ==
    variant = "parallel" /\ pc \in {"close", "done"} =>
        result = [k \in 1..height |-> ParRowLine(k - 1)]

\* a run that returned although results of different rows arrived out of order
C1_Witness ==
    /\ ParDone
    /\ Len(arrived) >= 2
    /\ arrived[1] > arrived[2]
    /\ result[arrived[1] + 1] # result[arrived[2] + 1]

\* C3: under fair scheduling the parallel conversion returns, and when it has
\* returned every dispatched task has sent its one result, the collector has
\* received exactly one result per row index, the channel is drained and no
\* slot is unfilled.
C3_AllCollected ==
    ParDone =>
        /\ \A r \in 0..(height - 1) : task[r] = "finished"
        /\ Len(arrived) = height
        /\ \A r \in 0..(height - 1) :
               Cardinality({k \in 1..Len(arrived) : arrived[k] = r}) = 1
        /\ resultChan = <<>>
        /\ Len(result) = height
        /\ \A k \in 1..height : result[k] # <<>>

C3_CollectsAllAndReturns ==
    /\ [](C3_AllCollected)
    /\ (variant = "parallel") ~> (pc = "done")

C3_Witness == ParDone /\ height >= 2 /\ Len(arrived) = height

(***************************************************************************)
(* Reading a line back: its cells, and the colour and glyph of a cell.     *)
(***************************************************************************)
FirstIndex(s, tok) ==
    IF \E k \in 1..Len(s) : s[k] = tok
    THEN CHOOSE k \in 1..Len(s) : s[k] = tok /\ \A j \in 1..(k - 1) : s[j] # tok
    ELSE 0

\* the pieces of a line, each ending with the reset escape
RECURSIVE SplitCells(_)
SplitCells(s) ==
    IF s = <<>> THEN <<>>
    ELSE LET k == FirstIndex(s, EscReset)
         IN  IF k = 0 THEN <<s>>
             ELSE <<SubSeq(s, 1, k)>> \o SplitCells(SubSeq(s, k + 1, Len(s)))

IsNumber(s) ==
    Len(s) >= 1 /\ \A k \in 1..Len(s) : \E d \in 1..Len(Digits) : Digits[d] = s[k]

RECURSIVE Atoi(_)
Atoi(s) ==
    IF s = <<>> THEN 0
    ELSE 10 * Atoi(SubSeq(s, 1, Len(s) - 1))
             + (CHOOSE d \in 1..Len(Digits) : Digits[d] = s[Len(s)]) - 1

NoCell == [ok |-> FALSE, r |-> 0, g |-> 0, b |-> 0, glyph |-> ""]

\* EscFg <r> ";" <g> ";" <b> "m" <glyph> EscReset
ParseCell(c) ==
    LET p1 == FirstIndex(c, ";")
        rest1 == SubSeq(c, p1 + 1, Len(c))
        p2 == FirstIndex(rest1, ";")
        rest2 == SubSeq(rest1, p2 + 1, Len(rest1))
        pm == FirstIndex(rest2, "m")
    IN  IF /\ Len(c) >= 9
           /\ c[1] = EscFg
           /\ p1 > 2
           /\ p2 > 1
           /\ pm > 1
           /\ Len(rest2) = pm + 2
           /\ rest2[pm + 2] = EscReset
           /\ IsNumber(SubSeq(c, 2, p1 - 1))
           /\ IsNumber(SubSeq(rest1, 1, p2 - 1))
           /\ IsNumber(SubSeq(rest2, 1, pm - 1))
        THEN [ok |-> TRUE,
              r |-> Atoi(SubSeq(c, 2, p1 - 1)),
              g |-> Atoi(SubSeq(rest1, 1, p2 - 1)),
              b |-> Atoi(SubSeq(rest2, 1, pm - 1)),
              glyph |-> rest2[pm + 1]]
        ELSE NoCell

IsGlyph(tok) == \E k \in 1..Len(palette) : palette[k] = tok

\* number of glyphs of a plain line, of escape-wrapped glyphs of a colour
\* line; -1 for a line that is neither
GlyphCount(line) ==
    IF color
    THEN LET cells == SplitCells(line)
         IN  IF \A k \in 1..Len(cells) :
                    ParseCell(cells[k]).ok /\ IsGlyph(ParseCell(cells[k]).glyph)
             THEN Len(cells) ELSE -1
    ELSE IF \A k \in 1..Len(line) : IsGlyph(line[k]) THEN Len(line) ELSE -1

\* the source points the conversion samples for cell (x, row)
SampledPoints(x, row) ==
    IF variant = "parallel" THEN BlockPoints(x, row) ELSE {SeqPoint(x, row, height)}

\* the colour the conversion maps cell (x, row) from
CellColour(x, row) ==
    IF variant = "parallel" THEN BlockMean(x, row) ELSE SeqColour(x, row, height)

\* per-channel arithmetic mean over a non-empty set of source points
MeanOver(P) ==
    <<SumChannel(P, 1) \div Cardinality(P),
      SumChannel(P, 2) \div Cardinality(P),
      SumChannel(P, 3) \div Cardinality(P)>>

OutCells == (0..(width - 1)) \X (0..(height - 1))

Uniform == \A p, q \in DOMAIN img : img[p] = img[q]

\* C2: the sequential and the parallel row computation return the same
\* output for the same image, width and scale.
C2_SeqEqualsPar ==
    pc = "done" =>
        /\ variant = "sequential" => result = [k \in 1..height |-> ParRowLine(k - 1)]
        /\ variant = "parallel" => result = SeqResult(height)

\* C4: the returned sequence has exactly H_out rows, H_out being
\* floor(H * W_out / W * scale) with 0 replaced by 1, and every row holds
\* exactly W_out glyphs (plain) or W_out escape-wrapped glyphs (colour).
C4_Dimensions ==
    pc = "done" =>
        /\ Len(result) =
               IF (imgHeight * width * scale[1]) \div (imgWidth * scale[2]) = 0
               THEN 1
               ELSE (imgHeight * width * scale[1]) \div (imgWidth * scale[2])
        /\ \A k \in 1..Len(result) : GlyphCount(result[k]) = width

C4_Witness ==
    /\ ParDone
    /\ color
    /\ imgHeight >= 1
    /\ width >= 2
    /\ Len(result) >= 2
    /\ \A k \in 1..Len(result) : GlyphCount(result[k]) = width

\* C5: for a uniformly coloured image every output cell of the block-averaging
\* conversion maps to the same glyph index, whatever its position.
C5_UniformSameGlyph ==
    ParDone /\ imgHeight >= 1 /\ Uniform =>
        \A c1, c2 \in OutCells :
            CharIndex(Gray(BlockMean(c1[1], c1[2])))
                = CharIndex(Gray(BlockMean(c2[1], c2[2])))

\* C6: every output cell of the block sampler samples at least one source
\* pixel, the top-left point of its window among them.
C6_AtLeastOneSample ==
    ParDone /\ imgHeight >= 1 =>
        \A c \in OutCells :
            /\ Cardinality(BlockPoints(c[1], c[2])) >= 1
            /\ <<WindowStart(c[1], imgWidth, width),
                 WindowStart(c[2], imgHeight, height)>> \in BlockPoints(c[1], c[2])

\* C7: once computed, the output height is at least 1, also for a source of
\* height 0 or narrower than the output; the conversion returns that many
\* rows, at least one.
C7_HeightAtLeastOne ==
    /\ pc # "start" => height >= 1 /\ Len(result) = height
    /\ pc = "done" => Len(result) >= 1

C7_Witness ==
    /\ pc = "done"
    /\ imgHeight = 0
    /\ imgWidth < width
    /\ RawHeight(imgHeight, width, imgWidth, scale) = 0
    /\ height = 1
    /\ Len(result) = 1

\* C8: for every colour a cell is mapped from, the luminance lies in 0..255
\* and the palette index in 0..9; black selects index 0, the glyph '@', and
\* full white index 9, the glyph ' '; the cell shows the glyph at that index.
C8_IndexInRange ==
    pc = "done" =>
        \A c \in OutCells :
            LET col == CellColour(c[1], c[2])
                idx == CharIndex(Gray(col))
            IN  /\ \A ch \in 1..3 : col[ch] \in 0..65535
                /\ Gray(col) \in 0..255
                /\ idx \in 0..(Len(palette) - 1)
                /\ col = <<0, 0, 0>> => idx = 0 /\ palette[idx + 1] = "@"
                /\ col = <<65535, 65535, 65535>> => idx = 9 /\ palette[idx + 1] = " "
                /\ ~color => result[c[2] + 1][c[1] + 1] = palette[idx + 1]

C8_Witness ==
    /\ pc = "done"
    /\ \E c \in OutCells : CellColour(c[1], c[2]) = <<0, 0, 0>>
    /\ \E c \in OutCells : CellColour(c[1], c[2]) = <<65535, 65535, 65535>>
    /\ \E c \in OutCells : CharIndex(Gray(CellColour(c[1], c[2]))) \in 1..8

\* C9: in colour mode every output cell embeds the per-channel mean of the
\* pixels sampled in its window, reduced to 8 bits, shows the glyph selected
\* from that mean and ends with the reset escape.
C9_ColourRoundTrip ==
    pc = "done" /\ color /\ imgHeight >= 1 =>
        \A c \in OutCells :
            LET cells == SplitCells(result[c[2] + 1])
                P == SampledPoints(c[1], c[2])
            IN  /\ Len(cells) = width
                /\ ParseCell(cells[c[1] + 1]).ok
                /\ P # {}
                /\ ParseCell(cells[c[1] + 1]).r = MeanOver(P)[1] \div 256
                /\ ParseCell(cells[c[1] + 1]).g = MeanOver(P)[2] \div 256
                /\ ParseCell(cells[c[1] + 1]).b = MeanOver(P)[3] \div 256
                /\ ParseCell(cells[c[1] + 1]).glyph = palette[CharIndex(Gray(MeanOver(P))) + 1]

\* C10: for a source at least one pixel high, every coordinate handed to
\* img.At lies inside the image.
C10_ReadsInBounds ==
    imgHeight >= 1 => \A p \in reads : InBounds(p[1], p[2])

\* a parallel run that sampled a window with a stride above 1
C10_Witness ==
    /\ ParDone
    /\ imgHeight >= 1
    /\ Stride(WindowStart(0, imgWidth, width), WindowEnd(0, imgWidth, width)) >= 2
    /\ Cardinality(reads) >= 3

\* C11: in the parallel variant the result channel never holds more than its
\* capacity H_out, a task that has yet to send always finds room in the
\* buffer, so its send does not block, and the channel is closed only when
\* every task has completed its send, so none sends on a closed channel.
C11_NoBlockedSendNoEarlyClose ==
    variant = "parallel" /\ pc # "start" =>
        /\ Len(resultChan) <= height
        /\ \A r \in DOMAIN task :
               task[r] # "finished" => Len(resultChan) < ChanCap /\ ~closed
        /\ closed => pc = "done" /\ \A r \in DOMAIN task : task[r] = "finished"

\* every task has sent before the collector received anything: the buffer is full
C11_Witness ==
    /\ variant = "parallel"
    /\ height >= 2
    /\ Len(resultChan) = height
    /\ \A r \in DOMAIN task : task[r] = "finished"

====
